---- MODULE Spec2Model ----
(***************************************************************************)
(* Rolling Plan Analytics Dashboard (src/app.py).                          *)
(*                                                                         *)
(* The script is one Streamlit handler: it is run from top to bottom when  *)
(* a file is uploaded and again whenever a sidebar widget changes.  The    *)
(* state is the loaded sheet, the three sidebar widgets and what the last  *)
(* run of the script produced (or the line at which it raised).            *)
(*                                                                         *)
(* Encoding.  A column name is the sequence of its words, and a substring  *)
(* test or a regular expression search is a test on the words.  A cell is  *)
(* an integer: NaN stands for an empty cell, Text for a cell holding text  *)
(* that is no number, any value >= 0 for that number; NaN, Text and None   *)
(* lie below every number and every difference the model computes.  A date *)
(* is year * 100 + month (the day is always 1), NaT the missing date.  A   *)
(* table is the sequence of its rows; the order pandas gives the rows of   *)
(* a join is not modelled, and no property below reads it.  Standard       *)
(* deviations are compared in exact arithmetic.                            *)
(***************************************************************************)
EXTENDS Integers, Sequences, FiniteSets, TLC

VARIABLES df, selected_date, selected_customer, selected_product,
          status, crash_line, merged, filtered, kpi, monthly_summary,
          cust_summary, comp_prev, comp_next, forecast, anomalies

vars == <<df, selected_date, selected_customer, selected_product,
          status, crash_line, merged, filtered, kpi, monthly_summary,
          cust_summary, comp_prev, comp_next, forecast, anomalies>>

(***************************************************************************)
(* Values                                                                  *)
(***************************************************************************)
NaN == -1000000
Text == -1000001
NaT == NaN
NullStr == "<NA>"
None == -1000002

\* Largest number a cell of a sheet holds.
MaxVal == 2

\* fillna(25) and + 2000 of the year computation.
DefaultYear == 25
Century == 2000
\* The band of the anomaly detector: mean +/- 2 * std.
SigmaBand == 2
\* The lines of the script that raise: merged['Dificit Qty.'] on a table
\* without that column, and selected_date.strftime on None.
KeyErrorLine == 46
StrftimeLine == 62

month_map == [Oct |-> 10, Nov |-> 11, Dec |-> 12, Jan |-> 1, Feb |-> 2]

\* The numerals pd.to_numeric reads as numbers.
Numerals == [n23 \in {"23"} |-> 23] @@ [n24 \in {"24"} |-> 24] @@ [n25 \in {"25"} |-> 25]

\* The string the pattern r"(\\d{2})" matches: a backslash followed by "dd".
YearPatternText == "\\dd"

(***************************************************************************)
(* Helpers on sequences                                                    *)
(***************************************************************************)
RECURSIVE Concat(_)
Concat(ss) == IF ss = <<>> THEN <<>> ELSE Head(ss) \o Concat(Tail(ss))

Map(s, F(_)) == [i \in 1..Len(s) |-> F(s[i])]

SetMin(S) == CHOOSE x \in S : \A y \in S : x <= y

RECURSIVE SortedSeq(_)
SortedSeq(S) == IF S = {} THEN <<>>
                ELSE LET m == SetMin(S) IN <<m>> \o SortedSeq(S \ {m})

\* The values of a column, as Series.unique() gives them, without their order.
Range(s) == {s[i] : i \in 1..Len(s)}

\* Series.sum(): NaN is skipped, the sum of nothing is 0.
RECURSIVE Sum(_)
Sum(s) == IF s = <<>> THEN 0
          ELSE (IF Head(s) = NaN THEN 0 ELSE Head(s)) + Sum(Tail(s))

\* pd.to_numeric(errors='coerce') on a cell.
to_numeric(v) == IF v = Text THEN NaN ELSE v

\* pd.to_numeric(errors='coerce') on an extracted string.
to_numeric_str(s) == IF s \in DOMAIN Numerals THEN Numerals[s] ELSE NaN

\* a - b on two cells after coercion: NaN if either is NaN.
Minus(a, b) == IF a = NaN \/ b = NaN THEN NaN ELSE a - b

(***************************************************************************)
(* Column names                                                            *)
(***************************************************************************)
\* 'kw' in str(col)
Contains(col, kw) == \E i \in 1..Len(col) : col[i] = kw

\* str.extract(pattern): the first match in the string, NaN (NullStr) if none.
ExtractFirst(col, matches) ==
    LET idx == {i \in 1..Len(col) : col[i] \in matches}
    IN IF idx = {} THEN NullStr ELSE col[SetMin(idx)]

\* The production columns, were they also required to name a recognized month.
production_cols_month(d) ==
    SelectSeq(d.cols, LAMBDA c : Contains(c, "Production")
                                 /\ ExtractFirst(c, {"Oct", "Nov", "Dec", "Jan", "Feb"}) # NullStr)

production_cols(d) == SelectSeq(d.cols, LAMBDA c : Contains(c, "Production"))
sales_cols(d) == SelectSeq(d.cols, LAMBDA c : Contains(c, "Sales"))

ColIndex(d, c) == CHOOSE i \in 1..Len(d.cols) : d.cols[i] = c

(***************************************************************************)
(* Reshaper and Merger                                                     *)
(***************************************************************************)
\* df.melt(id_vars=[Customer, Product], value_vars, var_name='Month'):
\* one record per value column and row, column by column.
melt(d, value_vars) ==
    Concat([j \in 1..Len(value_vars) |->
              [i \in 1..Len(d.rows) |->
                 [Customer |-> d.rows[i].Customer,
                  Product  |-> d.rows[i].Product,
                  Month    |-> value_vars[j],
                  Value    |-> d.rows[i].vals[ColIndex(d, value_vars[j])]]]])

SameKey(a, b) == /\ a.Customer = b.Customer
                 /\ a.Product = b.Product
                 /\ a.Month = b.Month

SamePair(a, b) == a.Customer = b.Customer /\ a.Product = b.Product

\* The join, were it how='left': the sales records no production record matches are lost.
outer_merge_left(prod_data, sales_data) ==
    LET Row(p, s) == [Customer |-> p.Customer, Product |-> p.Product,
                      Month |-> p.Month, Production |-> p.Value, Sales |-> s.Value]
        LeftOnly(p) == [Customer |-> p.Customer, Product |-> p.Product,
                        Month |-> p.Month, Production |-> p.Value, Sales |-> NaN]
        Matches(p) == SelectSeq(sales_data, LAMBDA s : SameKey(p, s))
        FromLeft(p) == IF Matches(p) = <<>> THEN <<LeftOnly(p)>>
                       ELSE Map(Matches(p), LAMBDA s : Row(p, s))
    IN Concat(Map(prod_data, FromLeft))

\* pd.merge(prod_data, sales_data, on=[Customer, Product, Month], how='outer')
outer_merge(prod_data, sales_data) ==
    LET Row(p, s) == [Customer |-> p.Customer, Product |-> p.Product,
                      Month |-> p.Month, Production |-> p.Value, Sales |-> s.Value]
        LeftOnly(p) == [Customer |-> p.Customer, Product |-> p.Product,
                        Month |-> p.Month, Production |-> p.Value, Sales |-> NaN]
        RightOnly(s) == [Customer |-> s.Customer, Product |-> s.Product,
                         Month |-> s.Month, Production |-> NaN, Sales |-> s.Value]
        Matches(p) == SelectSeq(sales_data, LAMBDA s : SameKey(p, s))
        FromLeft(p) == IF Matches(p) = <<>> THEN <<LeftOnly(p)>>
                       ELSE Map(Matches(p), LAMBDA s : Row(p, s))
        Unmatched == SelectSeq(sales_data,
                        LAMBDA s : \A i \in 1..Len(prod_data) : ~SameKey(prod_data[i], s))
    IN Concat(Map(prod_data, FromLeft)) \o Map(Unmatched, RightOnly)

\* The deficit table, were its rows without a value not dropped.
deficit_data_keepna(d) ==
    Map(d.rows, LAMBDA r : [Customer |-> r.Customer, Product |-> r.Product,
                            Deficit |-> r.Deficit])

\* df[[Customer, Product, Dificit Qty.]].dropna()
deficit_data(d) ==
    SelectSeq(Map(d.rows, LAMBDA r : [Customer |-> r.Customer, Product |-> r.Product,
                                      Deficit |-> r.Deficit]),
              LAMBDA r : r.Customer # NullStr /\ r.Product # NullStr /\ r.Deficit # NaN)

\* pd.merge(merged, deficit_data, on=[Customer, Product], how='left')
left_merge(m, dd) ==
    LET With(r, v) == [Customer |-> r.Customer, Product |-> r.Product, Month |-> r.Month,
                       Production |-> r.Production, Sales |-> r.Sales, Deficit |-> v]
        Matches(r) == SelectSeq(dd, LAMBDA x : SamePair(r, x))
        FromLeft(r) == IF Matches(r) = <<>> THEN <<With(r, NaN)>>
                       ELSE Map(Matches(r), LAMBDA x : With(r, x.Deficit))
    IN Concat(Map(m, FromLeft))

(***************************************************************************)
(* Period Normalizer                                                       *)
(***************************************************************************)
\* Lines 35-41, column by column.
MonthText(col) == ExtractFirst(col, {"Oct", "Nov", "Dec", "Jan", "Feb"})
YearText(col) == ExtractFirst(col, {YearPatternText})
MonthNum(month_text) ==
    IF month_text \in DOMAIN month_map THEN month_map[month_text] ELSE NaN

Year(year_text, month_num) ==
    LET y == to_numeric_str(year_text)
        base == (IF y = NaN THEN DefaultYear ELSE y) + Century
    IN IF month_num \in {1, 2} THEN base + 1 ELSE base

\* pd.to_datetime(dict(year, month, day=1)): the first day of the month, NaT
\* where the month is missing.
Date(year, month_num) == IF month_num = NaN THEN NaT ELSE year * 100 + month_num

normalize(m) ==
    Map(m, LAMBDA r :
        LET mt == MonthText(r.Month)
            yt == YearText(r.Month)
            mn == MonthNum(mt)
            y  == Year(yt, mn)
        IN r @@ [MonthText |-> mt, YearText |-> yt, MonthNum |-> mn, Year |-> y,
                 Date |-> Date(y, mn)])

\* Lines 25-41: melt, outer merge, the deficit join when the column is there,
\* and the month and year columns.
build_merged(d) ==
    LET m == outer_merge(melt(d, production_cols(d)), melt(d, sales_cols(d)))
    IN normalize(IF d.hasDeficit THEN left_merge(m, deficit_data(d)) ELSE m)

\* Lines 44-46 on a table that has the deficit column.
coerce(m) ==
    Map(m, LAMBDA r : [r EXCEPT !.Production = to_numeric(@), !.Sales = to_numeric(@),
                                !.Deficit = to_numeric(@)])

(***************************************************************************)
(* Sidebar and filters                                                     *)
(***************************************************************************)
Column(m, F(_)) == Map(m, F)

\* sorted(merged['Date'].dropna().unique())
date_list(m) == SortedSeq(Range(Column(m, LAMBDA r : r.Date)) \ {NaT})

customer_options(m) == Range(Column(m, LAMBDA r : r.Customer)) \ {NullStr}
product_options(m) == Range(Column(m, LAMBDA r : r.Product)) \ {NullStr}

\* Lines 55-59.
apply_filters(m, sd, sc, sp) ==
    LET f0 == SelectSeq(m, LAMBDA r : r.Date = sd)
        f1 == IF sc # {} THEN SelectSeq(f0, LAMBDA r : r.Customer \in sc) ELSE f0
    IN IF sp # {} THEN SelectSeq(f1, LAMBDA r : r.Product \in sp) ELSE f1

(***************************************************************************)
(* Aggregator                                                              *)
(***************************************************************************)
kpi_cards(f) == [Production |-> Sum(Column(f, LAMBDA r : r.Production)),
                 Sales      |-> Sum(Column(f, LAMBDA r : r.Sales)),
                 Deficit    |-> Sum(Column(f, LAMBDA r : r.Deficit))]

\* The monthly summary, were it grouped from the filtered table.
summary_source_filtered(m, f) == f

\* The table the monthly summary is grouped from: merged, not filtered.
summary_source(m, f) == m

\* groupby('Date')[['Production', 'Sales']].sum().reset_index(): one row per
\* date that is not NaT, in date order.
group_by_date(t) ==
    LET dates == date_list(t)
        Rows(dt) == SelectSeq(t, LAMBDA r : r.Date = dt)
    IN Map(dates, LAMBDA dt : [Date |-> dt,
                               Production |-> Sum(Column(Rows(dt), LAMBDA r : r.Production)),
                               Sales |-> Sum(Column(Rows(dt), LAMBDA r : r.Sales))])

\* filtered.groupby(Customer)[['Production', 'Sales']].sum(): one row per
\* customer that is not NaN.
group_by_customer(f) ==
    [c \in customer_options(f) |->
        LET rows == SelectSeq(f, LAMBDA r : r.Customer = c)
        IN [Production |-> Sum(Column(rows, LAMBDA r : r.Production)),
            Sales |-> Sum(Column(rows, LAMBDA r : r.Sales))]]

IndexOf(s, x) == CHOOSE i \in 1..Len(s) : s[i] = x

prev_date(m, sd) == LET dl == date_list(m) i == IndexOf(dl, sd)
                    IN IF i > 1 THEN dl[i - 1] ELSE None
next_date(m, sd) == LET dl == date_list(m) i == IndexOf(dl, sd)
                    IN IF i < Len(dl) THEN dl[i + 1] ELSE None

\* pd.merge(filtered, other, on=[Customer, Product]): the inner join.
inner_pairs(f, other) ==
    Concat(Map(f, LAMBDA c : Map(SelectSeq(other, LAMBDA o : SamePair(c, o)),
                                 LAMBDA o : <<c, o>>)))

\* The difference, were it previous - current.
prev_diff_swapped(cur, prv) == Minus(prv, cur)

\* Lines 86-92: current - previous.
prev_diff(cur, prv) == Minus(cur, prv)
compare_prev(f, m, pd) ==
    Map(inner_pairs(f, SelectSeq(m, LAMBDA r : r.Date = pd)),
        LAMBDA p : [Customer |-> p[1].Customer, Product |-> p[1].Product,
                    Production_Diff |-> prev_diff(p[1].Production, p[2].Production),
                    Sales_Diff |-> prev_diff(p[1].Sales, p[2].Sales)])

\* Lines 94-100: next - current.
compare_next(f, m, nd) ==
    Map(inner_pairs(f, SelectSeq(m, LAMBDA r : r.Date = nd)),
        LAMBDA p : [Customer |-> p[1].Customer, Product |-> p[1].Product,
                    Production_Diff |-> Minus(p[2].Production, p[1].Production),
                    Sales_Diff |-> Minus(p[2].Sales, p[1].Sales)])

(***************************************************************************)
(* Forecaster                                                              *)
(***************************************************************************)
RECURSIVE Total(_)
\* The plain sum of a sequence of numbers.
Total(s) == IF s = <<>> THEN 0 ELSE Head(s) + Total(Tail(s))

\* LinearRegression().fit(MonthIndex, y).predict([[len(y)]]) as the exact
\* fraction num / den.  With one sample the fitted slope is 0 and the
\* prediction is that sample.
predict_next(y) ==
    LET n   == Len(y)
        Sx  == Total([i \in 1..n |-> i - 1])
        Sxx == Total([i \in 1..n |-> (i - 1) * (i - 1)])
        Sy  == Total(y)
        Sxy == Total([i \in 1..n |-> (i - 1) * y[i]])
        D   == n * Sxx - Sx * Sx
    IN IF n = 1 THEN [num |-> y[1], den |-> 1]
       ELSE [num |-> Sy * D + (n * Sxy - Sx * Sy) * (n * n - Sx), den |-> n * D]

forecasting(ms) == [Production |-> predict_next(Column(ms, LAMBDA r : r.Production)),
                    Sales |-> predict_next(Column(ms, LAMBDA r : r.Sales))]

(***************************************************************************)
(* Anomaly Detector                                                        *)
(***************************************************************************)
\* The comparison, were it >= and <=.
outside_band_nonstrict(x, ys, k) ==
    LET n == Len(ys)
        S == Total(ys)
        Q == Total([i \in 1..n |-> ys[i] * ys[i]])
    IN /\ n >= 2
       /\ (n * x - S) * (n * x - S) * (n - 1) >= k * k * n * (n * Q - S * S)

\* x > mean + k * std or x < mean - k * std, with std the sample standard
\* deviation (ddof = 1) of ys, in exact arithmetic: with n = Len(ys), S the
\* sum and Q the sum of squares, |x - S/n| > k * sqrt((Q - S*S/n) / (n-1)).
\* With fewer than two values std is NaN and every comparison is false.
outside_band(x, ys, k) ==
    LET n == Len(ys)
        S == Total(ys)
        Q == Total([i \in 1..n |-> ys[i] * ys[i]])
    IN /\ n >= 2
       /\ (n * x - S) * (n * x - S) * (n - 1) > k * k * n * (n * Q - S * S)

\* The band, were it mean +/- std.
band_one_sigma(ms) == 1

\* The multiple of std that bounds the band.
band(ms) == SigmaBand

anomaly_detection(ms) ==
    SelectSeq(ms, LAMBDA r :
        \/ outside_band(r.Production, Column(ms, LAMBDA q : q.Production), band(ms))
        \/ outside_band(r.Sales, Column(ms, LAMBDA q : q.Sales), band(ms)))

(***************************************************************************)
(* The sheets                                                              *)
(***************************************************************************)
\* The pool of metric columns: a production and a sales column of one month,
\* a production column of a month after the turn of the year, one of a month
\* outside the month table, a column that is both a production and a sales
\* series, and a column that is neither.
ColumnPool == << <<"Production", "Oct", "24">>,
                 <<"Sales", "Oct", "24">>,
                 <<"Production", "Jan", "25">>,
                 <<"Production", "Mar", "25">>,
                 <<"Production", "Sales", "Dec", "24">>,
                 <<"Remarks">> >>

\* The sheets of Spec: their shapes <<rows, metric columns>>, the metric
\* columns they choose among, the customer and product of a row (the
\* product cell may be empty) and what a cell holds.
Shapes == {<<0, 0>>, <<1, 0>>, <<0, 1>>, <<1, 1>>, <<2, 1>>, <<1, 2>>}

Pairs == {<<"A", "X">>, <<"B", "X">>, <<"A", NullStr>>}
CellValues == {NaN, Text} \cup 1..MaxVal
DeficitValues == {NaN, Text} \cup 1..MaxVal

\* The column lists of n columns of the pool, in the pool's order.
ColumnLists(n) ==
    {SelectSeq(ColumnPool, LAMBDA c : c \in S) :
        S \in {T \in SUBSET Range(ColumnPool) : Cardinality(T) = n}}

RowsOf(hasDeficit, ncols) ==
    {[Customer |-> p[1], Product |-> p[2], Deficit |-> dv, vals |-> v] :
        p \in Pairs,
        dv \in (IF hasDeficit THEN DeficitValues ELSE {NaN}),
        v \in [1..ncols -> CellValues]}

\* The sheet as lines 14-15 leave it: the metric columns, whether the
\* 'Dificit Qty.' column is there, and the rows that are not wholly empty.
Sheet(h, cs, rs) == [hasDeficit |-> h, cols |-> cs, rows |-> rs]

(***************************************************************************)
(* The script                                                              *)
(***************************************************************************)
NothingShown ==
    /\ filtered' = <<>>
    /\ kpi' = <<>>
    /\ monthly_summary' = <<>>
    /\ cust_summary' = <<>>
    /\ comp_prev' = <<>>
    /\ comp_next' = <<>>
    /\ forecast' = <<>>
    /\ anomalies' = <<>>

\* One run of the script, the widgets asking for one w = <<month, customers,
\* products>> of widgets.  n is the table of line 41, m that of line 46, dl
\* the options of the month selectbox and sel its value (the chosen option,
\* the first one by default, None when there is no option), f the filtered
\* table, ms the monthly summary, pd and nd the neighbours of sel.
Rerun(widgets) ==
  \E n \in {build_merged(df)} :
  \E m \in {IF df.hasDeficit THEN coerce(n) ELSE n} :
  \E dl \in {date_list(m)} :
  \E w \in widgets :
  \E sd \in {w[1]}, sc \in {w[2]}, sp \in {w[3]} :
  \E sel \in {IF sd \in Range(dl) THEN sd ELSE IF dl = <<>> THEN None ELSE dl[1]} :
  \E f \in {apply_filters(m, sel, sc, sp)} :
  \E ms \in {group_by_date(summary_source(m, f))} :
  \E pd \in {IF sel = None THEN None ELSE prev_date(m, sel)} :
  \E nd \in {IF sel = None THEN None ELSE next_date(m, sel)} :
       /\ df' = df
       /\ IF ~df.hasDeficit
          THEN /\ status' = "crashed"
               /\ crash_line' = KeyErrorLine
               /\ merged' = n
               /\ UNCHANGED <<selected_date, selected_customer, selected_product>>
               /\ NothingShown
          ELSE /\ merged' = m
               /\ selected_date' = sel
               /\ selected_customer' = sc
               /\ selected_product' = sp
               /\ IF sel = None
                  THEN /\ status' = "crashed"
                       /\ crash_line' = StrftimeLine
                       /\ NothingShown
                  ELSE /\ status' = "rendered"
                       /\ crash_line' = 0
                       /\ filtered' = f
                       /\ kpi' = kpi_cards(f)
                       /\ monthly_summary' = ms
                       /\ cust_summary' = group_by_customer(f)
                       /\ comp_prev' = (IF pd # None THEN compare_prev(f, m, pd) ELSE <<>>)
                       /\ comp_next' = (IF nd # None THEN compare_next(f, m, nd) ELSE <<>>)
                       /\ forecast' = forecasting(ms)
                       /\ anomalies' = anomaly_detection(ms)

SidebarShown == status = "rendered" \/ (status = "crashed" /\ crash_line = StrftimeLine)

\* The run that follows the upload.
FirstRun ==
    /\ status = "uploaded"
    /\ Rerun({<<None, {}, {}>>})

SelectMonth ==
    /\ status = "rendered"
    /\ Rerun({<<dt, selected_customer, selected_product>> :
                 dt \in Range(date_list(merged)) \ {selected_date}})

SelectCustomer ==
    /\ SidebarShown
    /\ Rerun({<<selected_date, sc, selected_product>> :
                 sc \in (SUBSET customer_options(merged)) \ {selected_customer}})

SelectProduct ==
    /\ SidebarShown
    /\ Rerun({<<selected_date, selected_customer, sp>> :
                 sp \in (SUBSET product_options(merged)) \ {selected_product}})

\* The file d has been uploaded and the script has not run yet.
Uploaded(d) ==
    /\ df = d
    /\ selected_date = None
    /\ selected_customer = {}
    /\ selected_product = {}
    /\ status = "uploaded"
    /\ crash_line = 0
    /\ merged = <<>>
    /\ filtered = <<>>
    /\ kpi = <<>>
    /\ monthly_summary = <<>>
    /\ cust_summary = <<>>
    /\ comp_prev = <<>>
    /\ comp_next = <<>>
    /\ forecast = <<>>
    /\ anomalies = <<>>

Init ==
    \E h \in BOOLEAN, sh \in Shapes :
        \E cs \in ColumnLists(sh[2]), rs \in [1..sh[1] -> RowsOf(h, sh[2])] :
            Uploaded(Sheet(h, cs, rs))

\* The sheets of SpecWide: one row and the first k months of the five-month
\* window, each month with a production and a sales column.  The production
\* cells take the values of the anomaly example in every order, the sales
\* cells the same values in the opposite order.
WideMonths == << <<"Oct", "24">>, <<"Nov", "24">>, <<"Dec", "24">>,
                 <<"Jan", "25">>, <<"Feb", "25">> >>

WideValues == {98, 100, 102, 500}

InitWide ==
    \E k \in 0..Len(WideMonths) :
        \E v \in [1..k -> WideValues] :
            Uploaded(Sheet(TRUE,
                           [i \in 1..(2 * k) |->
                               IF i <= k THEN <<"Production">> \o WideMonths[i]
                                         ELSE <<"Sales">> \o WideMonths[i - k]],
                           <<[Customer |-> "A", Product |-> "X", Deficit |-> NaN,
                              vals |-> [i \in 1..(2 * k) |->
                                           IF i <= k THEN v[i] ELSE v[2 * k + 1 - i]]]>>))

Next == FirstRun \/ SelectMonth \/ SelectCustomer \/ SelectProduct

Spec == Init /\ [][Next]_vars

SpecWide == InitWide /\ [][Next]_vars

(***************************************************************************)
(* Properties                                                              *)
(***************************************************************************)
Ran == status # "uploaded"
Rendered == status = "rendered"

CountRows(t, P(_)) == Cardinality({i \in 1..Len(t) : P(t[i])})

\* The numbers of a column that are not NaN.
Numbers(t, F(_)) == SelectSeq(Column(t, F), LAMBDA v : v # NaN)

\* C1: when the sheet has no 'Dificit Qty.' column the run raises no error up
\* to the KPI totals, and no merged record carries a deficit.
C1_MissingDeficitCompletes ==
    (Ran /\ ~df.hasDeficit) =>
        /\ ~(status = "crashed" /\ crash_line <= KeyErrorLine)
        /\ \A i \in 1..Len(merged) :
              "Deficit" \in DOMAIN merged[i] => merged[i].Deficit = NaN

\* C2: a period token with a recognized month and a two-digit year Y gets the
\* month of the table, the year 2000 + Y (2000 + Y + 1 for Jan and Feb) and
\* the first day of that month.
C2_YearFromToken ==
    \A i \in 1..Len(merged) :
        LET mt == ExtractFirst(merged[i].Month, DOMAIN month_map)
            yy == ExtractFirst(merged[i].Month, DOMAIN Numerals)
            y  == Century + Numerals[yy] + (IF mt \in {"Jan", "Feb"} THEN 1 ELSE 0)
        IN (mt # NullStr /\ yy # NullStr) =>
              /\ merged[i].MonthNum = month_map[mt]
              /\ merged[i].Year = y
              /\ merged[i].Date = y * 100 + month_map[mt]

\* The user moves the month selectbox from a date to the next one of the
\* sorted date list and leaves the other two filters alone.
StepToNextMonth ==
    /\ Rendered /\ status' = "rendered"
    /\ df' = df
    /\ selected_date' = next_date(merged, selected_date)
    /\ selected_customer' = selected_customer
    /\ selected_product' = selected_product

Negated(v) == IF v = NaN THEN NaN ELSE 0 - v

DiffPairs == {<<r.Customer, r.Product>> : r \in Range(comp_next)}
DiffValues == {r.Production_Diff : r \in Range(comp_next)}

\* C3 as stated: for adjacent dates, every Production_Diff of the previous-month
\* comparison at the later date is the negation of one of the next-month
\* comparison at the earlier date, pair by pair and as often.
C3_DiffNegated ==
    [][StepToNextMonth =>
         \A pr \in DiffPairs, v \in DiffValues :
            CountRows(comp_prev', LAMBDA r : <<r.Customer, r.Product>> = pr
                                             /\ r.Production_Diff = Negated(v))
            = CountRows(comp_next, LAMBDA r : <<r.Customer, r.Product>> = pr
                                              /\ r.Production_Diff = v)]_vars

\* C3 as amended: for adjacent dates, the previous-month comparison at the
\* later date holds, pair by pair and as often, the same Production_Diff
\* values as the next-month comparison at the earlier date (both are later
\* minus earlier), and no others.
C3_DiffEqual ==
    [][StepToNextMonth =>
         /\ Len(comp_prev') = Len(comp_next)
         /\ \A pr \in DiffPairs, v \in DiffValues :
               CountRows(comp_prev', LAMBDA r : <<r.Customer, r.Product>> = pr
                                                /\ r.Production_Diff = v)
               = CountRows(comp_next, LAMBDA r : <<r.Customer, r.Product>> = pr
                                                 /\ r.Production_Diff = v)]_vars

\* A previous-month comparison of a pair whose production rose is on screen.
C3_Witness ==
    /\ Rendered
    /\ Len(comp_prev) >= 1
    /\ \E i \in 1..Len(comp_prev) :
          comp_prev[i].Production_Diff # NaN /\ comp_prev[i].Production_Diff > 0

\* The deficits of the sheet's rows of the pair of r that the deficit table
\* keeps, as numbers.
SourceDeficits(r) ==
    {to_numeric(df.rows[i].Deficit) :
        i \in {j \in 1..Len(df.rows) : /\ SamePair(df.rows[j], r)
                                       /\ r.Customer # NullStr /\ r.Product # NullStr
                                       /\ df.rows[j].Deficit # NaN}}

\* C4 as stated: all merged records of a pair carry one deficit, the one every
\* row of the sheet has for that pair.
C4_OneDeficitPerPair ==
    (Ran /\ df.hasDeficit) =>
        \A i \in 1..Len(merged) :
            /\ \A j \in 1..Len(merged) :
                  SamePair(merged[i], merged[j]) => merged[i].Deficit = merged[j].Deficit
            /\ \A k \in 1..Len(df.rows) :
                  SamePair(merged[i], df.rows[k]) =>
                      merged[i].Deficit = to_numeric(df.rows[k].Deficit)

\* C4 as amended: a merged record carries the deficit (as a number) of one of
\* the sheet's rows of its pair that has a customer, a product and a deficit,
\* and null when there is no such row; every such row's deficit is carried by
\* a record of each period of the pair; so the records of a pair carry one
\* and the same deficit when those rows hold one deficit value.
C4_DeficitFromSource ==
    (Ran /\ df.hasDeficit) =>
        \A i \in 1..Len(merged) :
            LET src == SourceDeficits(merged[i])
            IN /\ IF src = {} THEN merged[i].Deficit = NaN
                  ELSE merged[i].Deficit \in src
               /\ \A v \in src : \E j \in 1..Len(merged) :
                     /\ SameKey(merged[i], merged[j])
                     /\ merged[j].Deficit = v
               /\ Cardinality(src) <= 1 =>
                     \A j \in 1..Len(merged) :
                        SamePair(merged[i], merged[j]) =>
                            merged[i].Deficit = merged[j].Deficit

\* The records of a pair that two rows of the sheet share carry the deficit
\* of one row, the other row having none.
C4_Witness ==
    /\ Ran /\ df.hasDeficit
    /\ Len(df.rows) = 2
    /\ SamePair(df.rows[1], df.rows[2])
    /\ df.rows[1].Deficit = NaN /\ df.rows[2].Deficit \in 1..MaxVal
    /\ Len(merged) >= 2
    /\ \A i \in 1..Len(merged) : merged[i].Deficit = df.rows[2].Deficit

ProdData == melt(df, production_cols(df))
SalesData == melt(df, sales_cols(df))
OuterJoin == outer_merge(ProdData, SalesData)
KeyOf(r) == <<r.Customer, r.Product, r.Month>>
UnionKeys == {KeyOf(r) : r \in Range(ProdData)} \cup {KeyOf(r) : r \in Range(SalesData)}
SharedKey == \E p \in Range(ProdData), q \in Range(SalesData) :
                SameKey(p, q) /\ p.Value # NaN /\ q.Value # NaN
UniquePairs == \A i, j \in 1..Len(df.rows) : SamePair(df.rows[i], df.rows[j]) => i = j

C6_SummaryIsUnfilteredSum ==
    Rendered =>
        /\ {monthly_summary[i].Date : i \in 1..Len(monthly_summary)}
              = {merged[i].Date : i \in 1..Len(merged)} \ {NaT}
        /\ \A i, j \in 1..Len(monthly_summary) :
              monthly_summary[i].Date = monthly_summary[j].Date => i = j
        /\ \A i \in 1..Len(monthly_summary) :
              LET rows == SelectSeq(merged, LAMBDA r : r.Date = monthly_summary[i].Date)
              IN /\ monthly_summary[i].Production = Total(Numbers(rows, LAMBDA r : r.Production))
                 /\ monthly_summary[i].Sales = Total(Numbers(rows, LAMBDA r : r.Sales))

\* The customer filter hides a record whose production the summary counts.
C6_Witness ==
    /\ Rendered
    /\ selected_customer # {}
    /\ \E i \in 1..Len(merged) :
          /\ merged[i].Date = selected_date
          /\ merged[i].Customer \notin selected_customer
          /\ merged[i].Production \in 1..MaxVal
    /\ \E i \in 1..Len(monthly_summary) :
          /\ monthly_summary[i].Date = selected_date
          /\ monthly_summary[i].Production > kpi.Production

ForecastShown == DOMAIN forecast # {}
UsablePeriods == {merged[i].Date : i \in 1..Len(merged)} \ {NaT}

\* C7: with fewer than two usable periods the run does not raise and reports
\* no forecast number.
C7_NoForecastBelowTwoPeriods ==
    (Ran /\ df.hasDeficit /\ Cardinality(UsablePeriods) < 2) =>
        status # "crashed" /\ ~ForecastShown

SummaryProduction == Column(monthly_summary, LAMBDA r : r.Production)
SummarySales == Column(monthly_summary, LAMBDA r : r.Sales)
AnomalyExample == <<100, 102, 98, 500>>

\* C8 as stated: of four periods with production 100, 102, 98 and 500 the
\* detector flags the one with 500 and no other.
C8_Flags500 ==
    (Rendered /\ SummaryProduction = AnomalyExample) =>
        /\ Len(anomalies) = 1
        /\ anomalies[1].Production = 500

\* C8 as amended: of four periods with production 100, 102, 98 and 500 the
\* detector flags none (mean 200, sample standard deviation about 200: 500
\* lies inside mean + 2 * std = 600).
C8_FlagsNone ==
    (Rendered /\ SummaryProduction = AnomalyExample) => anomalies = <<>>

C8_Witness ==
    /\ Rendered
    /\ SummaryProduction = AnomalyExample
    /\ SummarySales = <<500, 98, 102, 100>>

HasMonth(col) == ExtractFirst(col, DOMAIN month_map) # NullStr
IsMetric(col) == Contains(col, "Production") \/ Contains(col, "Sales")

\* C9 as stated: every merged record's period token holds a recognized month:
\* a 'Production' or 'Sales' column without one contributes no record.
C9_OnlyMonthColumns ==
    \A i \in 1..Len(merged) : HasMonth(merged[i].Month)

\* C9 as amended: the columns are admitted by 'Production' or 'Sales' in the
\* name alone: each such column, with or without a recognized month, gives a
\* record per row, and no other column gives any; a record whose token holds
\* no recognized month has a null date and is in neither date-keyed view
\* (the filtered table, the monthly summary).
C9_KeywordColumns ==
    Ran =>
        /\ \A c \in Range(df.cols) :
              CountRows(merged, LAMBDA r : r.Month = c) >=
                 (IF IsMetric(c) THEN Len(df.rows) ELSE 0)
        /\ \A i \in 1..Len(merged) :
              /\ merged[i].Month \in Range(df.cols) /\ IsMetric(merged[i].Month)
              /\ ~HasMonth(merged[i].Month) => merged[i].Date = NaT
        /\ \A i \in 1..Len(filtered) : HasMonth(filtered[i].Month)
        /\ \A i \in 1..Len(monthly_summary) : monthly_summary[i].Date # NaT

\* A rendered run over a sheet with a production column of an unrecognized
\* month beside one of a recognized month.
C9_Witness ==
    /\ Rendered
    /\ \E i \in 1..Len(merged) : ~HasMonth(merged[i].Month) /\ merged[i].Production \in 1..MaxVal
    /\ Len(filtered) >= 1
    /\ Len(merged) > Len(filtered)

\* C10: a monthly summary of at most five rows, the most the month table
\* yields, has no anomaly.
C10_NoAnomalyUpToFivePeriods ==
    (Rendered /\ Len(monthly_summary) <= Cardinality(DOMAIN month_map)) =>
        /\ anomalies = <<>>
        /\ \A i \in 1..Len(monthly_summary) :
              /\ ~outside_band(monthly_summary[i].Production, SummaryProduction, SigmaBand)
              /\ ~outside_band(monthly_summary[i].Sales, SummarySales, SigmaBand)

\* Five periods, one of them far from the four others.
C10_Witness ==
    /\ Rendered
    /\ Len(monthly_summary) = Cardinality(DOMAIN month_map)
    /\ CountRows(monthly_summary, LAMBDA r : r.Production = 98) = 4
    /\ CountRows(monthly_summary, LAMBDA r : r.Production = 500) = 1

====
